---- MODULE Spec2Model ----
(***************************************************************************)
(* Model of pbspark/_proto.py: the MessageConverter override registry,    *)
(* the Spark schema derivation (get_spark_schema) and the dict            *)
(* conversions built on protobuf's json_format printer and parser.        *)
(***************************************************************************)
EXTENDS Integers, Sequences, FiniteSets, TLC

VARIABLES
    _custom_serializers,             \* MessageConverter._custom_serializers
    _custom_deserializers,           \* MessageConverter._custom_deserializers
    _message_type_to_spark_type_map, \* MessageConverter._message_type_to_spark_type_map
    declared,                        \* return_type argument of the registration in force, per full name
    args,                            \* the call the caller makes on the converter, with its arguments
    routine,                         \* json_format._ConvertScalarFieldValue: wrappers around the original
    threads,                         \* per thread: its parse_dict call's ConvertMessage frames and result
    heap,                            \* the dict objects of the process, by object identity
    converters,                      \* the MessageConverter instances constructed: the dicts each refers to
    derivation,                      \* a get_spark_schema call in progress: its recursive calls' frames
    last                             \* the most recent conversion / derivation call and what it returned

vars == <<_custom_serializers, _custom_deserializers,
          _message_type_to_spark_type_map, declared, args, routine, threads,
          heap, converters, derivation, last>>

-----------------------------------------------------------------------------
(* pyspark.sql.types values.  Every DataType is a record tagged by kind.   *)

Scalar(k) == [kind |-> k]
StringType == Scalar("StringType")
BinaryType == Scalar("BinaryType")
BooleanType == Scalar("BooleanType")
DoubleType == Scalar("DoubleType")
FloatType == Scalar("FloatType")
IntegerType == Scalar("IntegerType")
LongType == Scalar("LongType")
TimestampType == Scalar("TimestampType")
DecimalType == Scalar("DecimalType")

ArrayType(t, containsNull) ==
    [kind |-> "ArrayType", elementType |-> t, containsNull |-> containsNull]
StructField(n, t, nullable) == [name |-> n, dataType |-> t, nullable |-> nullable]
StructType(fields) == [kind |-> "StructType", fields |-> fields]

\* An exception leaving a call, in place of its return value.
Raise(exc) == [kind |-> "raise", exc |-> exc]
IsRaise(r) == r.kind = "raise"

-----------------------------------------------------------------------------
(* Dict helpers: a Python dict is a function whose DOMAIN is its key set.  *)

DictSet(d, k, v) == [x \in DOMAIN d \cup {k} |-> IF x = k THEN v ELSE d[x]]
DictPop(d, k) == [x \in DOMAIN d \ {k} |-> d[x]]
DictGet(d, k, default) == IF k \in DOMAIN d THEN d[k] ELSE default
EmptyDict == [x \in {} |-> TRUE]

-----------------------------------------------------------------------------
(* _MESSAGETYPE_TO_SPARK_TYPE_MAP and _CPPTYPE_TO_SPARK_TYPE_MAP           *)

TimestampName == "google.protobuf.Timestamp"
DurationName == "google.protobuf.Duration"

_MESSAGETYPE_TO_SPARK_TYPE_MAP ==
    [n \in {"google.protobuf.Timestamp", "google.protobuf.Duration",
            "google.protobuf.DoubleValue", "google.protobuf.FloatValue",
            "google.protobuf.Int64Value", "google.protobuf.UInt64Value",
            "google.protobuf.Int32Value", "google.protobuf.UInt32Value",
            "google.protobuf.BoolValue", "google.protobuf.StringValue",
            "google.protobuf.BytesValue"} |->
        CASE n = "google.protobuf.Timestamp" -> StringType
          [] n = "google.protobuf.Duration" -> StringType
          [] n = "google.protobuf.DoubleValue" -> DoubleType
          [] n = "google.protobuf.FloatValue" -> FloatType
          [] n = "google.protobuf.Int64Value" -> LongType
          [] n = "google.protobuf.UInt64Value" -> LongType
          [] n = "google.protobuf.Int32Value" -> IntegerType
          [] n = "google.protobuf.UInt32Value" -> LongType
          [] n = "google.protobuf.BoolValue" -> BooleanType
          [] n = "google.protobuf.StringValue" -> StringType
          [] n = "google.protobuf.BytesValue" -> BinaryType]

_CPPTYPE_TO_SPARK_TYPE_MAP ==
    [c \in {"CPPTYPE_INT32", "CPPTYPE_INT64", "CPPTYPE_UINT32", "CPPTYPE_UINT64",
            "CPPTYPE_DOUBLE", "CPPTYPE_FLOAT", "CPPTYPE_BOOL", "CPPTYPE_ENUM",
            "CPPTYPE_STRING"} |->
        CASE c = "CPPTYPE_INT32" -> IntegerType
          [] c = "CPPTYPE_INT64" -> LongType
          [] c = "CPPTYPE_UINT32" -> LongType
          [] c = "CPPTYPE_UINT64" -> LongType
          [] c = "CPPTYPE_DOUBLE" -> DoubleType
          [] c = "CPPTYPE_FLOAT" -> FloatType
          [] c = "CPPTYPE_BOOL" -> BooleanType
          [] c = "CPPTYPE_ENUM" -> StringType
          [] c = "CPPTYPE_STRING" -> StringType]

-----------------------------------------------------------------------------
(* Descriptors.  A FieldDescriptor carries the attributes the converter    *)
(* reads; message_type is "None" for a field that is not message-typed.    *)

None == "None"

ScalarField(n, cc, cpp, ty) ==
    [name |-> n, camelcase_name |-> cc, cpp_type |-> cpp, type |-> ty,
     label |-> "LABEL_OPTIONAL", message_type |-> None, deprecated |-> FALSE]
MessageField(n, cc, mt) ==
    [name |-> n, camelcase_name |-> cc, cpp_type |-> "CPPTYPE_MESSAGE",
     type |-> "TYPE_MESSAGE", label |-> "LABEL_OPTIONAL", message_type |-> mt,
     deprecated |-> FALSE]
RepeatedField(f) == [f EXCEPT !.label = "LABEL_REPEATED"]
DeprecatedField(f) == [f EXCEPT !.deprecated = TRUE]

\* The descriptor pool: full name -> Descriptor.fields, in declaration order.
DescriptorFields ==
    [n \in {"google.protobuf.Timestamp", "google.protobuf.Duration",
            "example.NestedMessage", "example.DecimalMessage",
            "example.ExampleMessage", "example.SelfRef", "example.CycA",
            "example.CycB", "example.Diamond", "example.Left", "example.Right",
            "example.Shared", "example.Pair"} |->
        CASE n = "google.protobuf.Timestamp" ->
                <<ScalarField("seconds", "seconds", "CPPTYPE_INT64", "TYPE_INT64"),
                  ScalarField("nanos", "nanos", "CPPTYPE_INT32", "TYPE_INT32")>>
          [] n = "google.protobuf.Duration" ->
                <<ScalarField("seconds", "seconds", "CPPTYPE_INT64", "TYPE_INT64"),
                  ScalarField("nanos", "nanos", "CPPTYPE_INT32", "TYPE_INT32")>>
          [] n = "example.NestedMessage" ->
                <<ScalarField("key", "key", "CPPTYPE_STRING", "TYPE_STRING"),
                  ScalarField("raw_value", "rawValue", "CPPTYPE_STRING", "TYPE_BYTES")>>
          [] n = "example.DecimalMessage" ->
                <<ScalarField("value", "value", "CPPTYPE_STRING", "TYPE_STRING")>>
          [] n = "example.ExampleMessage" ->
                <<ScalarField("int32", "int32", "CPPTYPE_INT32", "TYPE_INT32"),
                  ScalarField("uint32", "uint32", "CPPTYPE_UINT32", "TYPE_UINT32"),
                  ScalarField("int64", "int64", "CPPTYPE_INT64", "TYPE_INT64"),
                  ScalarField("enum", "enum", "CPPTYPE_ENUM", "TYPE_ENUM"),
                  ScalarField("bytes", "bytes", "CPPTYPE_STRING", "TYPE_BYTES"),
                  MessageField("nested", "nested", "example.NestedMessage"),
                  RepeatedField(ScalarField("stringlist", "stringlist",
                                            "CPPTYPE_STRING", "TYPE_STRING")),
                  MessageField("timestamp", "timestamp", "google.protobuf.Timestamp"),
                  MessageField("decimal", "decimal", "example.DecimalMessage")>>
          [] n = "example.SelfRef" ->
                <<MessageField("self_ref", "selfRef", "example.SelfRef"),
                  MessageField("created_at", "createdAt", "google.protobuf.Timestamp")>>
          [] n = "example.CycA" ->
                <<MessageField("cyc_b", "cycB", "example.CycB"),
                  RepeatedField(MessageField("stamps", "stamps",
                                             "google.protobuf.Timestamp")),
                  ScalarField("label", "label", "CPPTYPE_STRING", "TYPE_STRING")>>
          [] n = "example.CycB" ->
                <<DeprecatedField(MessageField("old_took", "oldTook",
                                               "google.protobuf.Duration")),
                  MessageField("cyc_a", "cycA", "example.CycA"),
                  MessageField("took", "took", "google.protobuf.Duration")>>
          [] n = "example.Diamond" ->
                <<MessageField("left", "left", "example.Left"),
                  MessageField("right", "right", "example.Right")>>
          [] n = "example.Left" ->
                <<MessageField("shared", "shared", "example.Shared")>>
          [] n = "example.Right" ->
                <<MessageField("shared", "shared", "example.Shared"),
                  RepeatedField(MessageField("more_shared", "moreShared",
                                             "example.Shared"))>>
          [] n = "example.Shared" ->
                <<MessageField("at", "at", "google.protobuf.Timestamp"),
                  DeprecatedField(MessageField("old_at", "oldAt",
                                               "google.protobuf.Timestamp")),
                  MessageField("took", "took", "google.protobuf.Duration")>>
          [] n = "example.Pair" ->
                <<MessageField("first", "first", "example.NestedMessage"),
                  RepeatedField(MessageField("others", "others",
                                             "example.NestedMessage"))>>]

MessageTypes == DOMAIN DescriptorFields

-----------------------------------------------------------------------------
(* Schema derivation                                                       *)

OptionKeys == {"preserving_proto_field_name", "ignore_deprecated",
               "ignore_circular_definitions"}
\* The options dicts callers pass: any subset of the keys, each set to True.
OptionDicts == {[k \in S |-> TRUE] : S \in SUBSET OptionKeys}

\* What a call did: the value it returned (or the exception that left it)
\* and the warnings it passed to logging.warning, in order.
Outcome(ret, log) == [ret |-> ret, log |-> log]

RECURSIVE get_spark_schema(_, _, _, _)
RECURSIVE SchemaFieldLoop(_, _, _, _, _, _, _)

\* The body of `for field in descriptor_.fields` from field number i on,
\* with the entries appended and the warnings logged so far.
SchemaFieldLoop(map, fields, i, schema, log, options, seen) ==
    IF i > Len(fields) THEN Outcome(StructType(schema), log)
    ELSE
        LET field == fields[i]
            use_camelcase == ~DictGet(options, "preserving_proto_field_name", FALSE)
            ignore_deprecated == DictGet(options, "ignore_deprecated", FALSE)
            ignore_circular_definitions ==
                DictGet(options, "ignore_circular_definitions", FALSE)
            wrap(t) == IF field.label = "LABEL_REPEATED" THEN ArrayType(t, TRUE) ELSE t
            field_name == IF use_camelcase THEN field.camelcase_name ELSE field.name
            append(t, lg) ==
                SchemaFieldLoop(map, fields, i + 1,
                                Append(schema, StructField(field_name, wrap(t), TRUE)),
                                lg, options, seen)
        IN  \* field_full_name = field.message_type.full_name
            IF field.message_type = None THEN Outcome(Raise("AttributeError"), log)
            ELSE IF field.deprecated /\ ignore_deprecated
                 THEN SchemaFieldLoop(map, fields, i + 1, schema, log, options, seen)
            ELSE IF field.message_type \in seen
                 THEN IF ignore_circular_definitions
                      THEN SchemaFieldLoop(map, fields, i + 1, schema,
                                           Append(log, field.message_type),
                                           options, seen)
                      ELSE Outcome(Raise("ValueError"), log)
            ELSE IF field.cpp_type = "CPPTYPE_MESSAGE"
                 THEN IF field.message_type \in DOMAIN map
                      THEN append(map[field.message_type], log)
                      ELSE LET sub == get_spark_schema(map, field.message_type,
                                                       options, seen)
                           IN IF IsRaise(sub.ret)
                              THEN Outcome(sub.ret, log \o sub.log)
                              ELSE append(sub.ret, log \o sub.log)
            ELSE IF field.cpp_type = "CPPTYPE_STRING" /\ field.type = "TYPE_BYTES"
                 THEN append(BinaryType, log)
            ELSE append(_CPPTYPE_TO_SPARK_TYPE_MAP[field.cpp_type], log)

\* MessageConverter.get_spark_schema(descriptor, options, _seen_descriptors)
\* against the converter's schema map.
get_spark_schema(map, descriptor, options, _seen_descriptors) ==
    LET _seen_descriptors_ == _seen_descriptors \cup {descriptor}
    IN IF descriptor \in DOMAIN map THEN Outcome(map[descriptor], <<>>)
       ELSE SchemaFieldLoop(map, DescriptorFields[descriptor], 1, <<>>, <<>>,
                            options, _seen_descriptors_)

-----------------------------------------------------------------------------
(* Override registry                                                       *)

\* What callers register: a message type, a serializer for it and the
\* result type declared for it.
Registrations ==
    {[message |-> "example.DecimalMessage", serializer |-> "decimal_serializer",
      return_type |-> DecimalType],
     [message |-> "example.DecimalMessage", serializer |-> "decimal_serializer",
      return_type |-> StringType],
     [message |-> "example.Shared", serializer |-> "at_seconds_serializer",
      return_type |-> LongType],
     [message |-> "example.Shared", serializer |-> "at_seconds_serializer",
      return_type |-> IntegerType]}
RegisteredMessages == {r.message : r \in Registrations}
Deserializers == {"decimal_deserializer"}
DeserializedMessages == {"example.DecimalMessage"}

NoCall == [op |-> "none"]
\* `declared` entry of a full name whose serializer has been unregistered.
Unregistered == [kind |-> "unregistered"]

\* The get_spark_schema calls callers make.
SchemaCalls ==
    {[op |-> "get_spark_schema", descriptor |-> d, options |-> o]
        : d \in MessageTypes, o \in OptionDicts}

NoDerivation == <<>>

\* The module-level table is one dict object of the process; a converter
\* refers to three more.
ModuleTable == 0
ModuleObjects == (ModuleTable :> _MESSAGETYPE_TO_SPARK_TYPE_MAP)

\* MessageConverter.__init__
NewConverter ==
    /\ heap = ModuleObjects
    /\ converters = <<>>
    /\ derivation = NoDerivation
    /\ _custom_serializers = [n \in {TimestampName} |-> "_to_datetime"]
    /\ _custom_deserializers = [n \in {TimestampName} |-> "_from_datetime"]
    /\ _message_type_to_spark_type_map =
           DictSet(_MESSAGETYPE_TO_SPARK_TYPE_MAP, TimestampName, TimestampType)
    /\ declared = [n \in {TimestampName} |-> TimestampType]
    /\ last = NoCall
    /\ routine = 0

NoThreads == <<>>
Init == NewConverter /\ args \in SchemaCalls /\ threads = NoThreads

\* unregister_serializer without the fall back to the built-in entry.
SerializerUnregistered_NoFallback(map, full_name) == DictPop(map, full_name)

\* The schema map after unregister_serializer's pop and built-in fall back.
SerializerUnregistered(map, full_name) ==
    LET popped == DictPop(map, full_name)
    IN IF full_name \in DOMAIN _MESSAGETYPE_TO_SPARK_TYPE_MAP
       THEN DictSet(popped, full_name, _MESSAGETYPE_TO_SPARK_TYPE_MAP[full_name])
       ELSE popped

register_serializer(full_name, serializer, return_type) ==
    /\ _custom_serializers' = DictSet(_custom_serializers, full_name, serializer)
    /\ _message_type_to_spark_type_map' =
           DictSet(_message_type_to_spark_type_map, full_name, return_type)
    /\ declared' = DictSet(declared, full_name, return_type)
    /\ last' = NoCall
    /\ UNCHANGED <<_custom_deserializers, args, routine, threads, heap, converters,
                   derivation>>

unregister_serializer(full_name) ==
    /\ _custom_serializers' = DictPop(_custom_serializers, full_name)
    /\ _message_type_to_spark_type_map' =
           SerializerUnregistered(_message_type_to_spark_type_map, full_name)
    /\ declared' = DictSet(declared, full_name, Unregistered)
    /\ last' = NoCall
    /\ UNCHANGED <<_custom_deserializers, args, routine, threads, heap, converters,
                   derivation>>

register_deserializer(full_name, deserializer) ==
    /\ _custom_deserializers' = DictSet(_custom_deserializers, full_name, deserializer)
    /\ last' = NoCall
    /\ UNCHANGED <<_custom_serializers, _message_type_to_spark_type_map, declared,
                   args, routine, threads, heap, converters,
                   derivation>>

unregister_deserializer(full_name) ==
    /\ _custom_deserializers' = DictPop(_custom_deserializers, full_name)
    /\ last' = NoCall
    /\ UNCHANGED <<_custom_serializers, _message_type_to_spark_type_map, declared,
                   args, routine, threads, heap, converters,
                   derivation>>

RegisterSerializer ==
    \E r \in Registrations : register_serializer(r.message, r.serializer, r.return_type)
UnregisterSerializer == \E m \in RegisteredMessages : unregister_serializer(m)
RegisterDeserializer ==
    \E m \in DeserializedMessages, f \in Deserializers : register_deserializer(m, f)
UnregisterDeserializer == \E m \in DeserializedMessages : unregister_deserializer(m)

register_timestamp_serializer ==
    register_serializer(TimestampName, "_to_datetime", TimestampType)
unregister_timestamp_serializer == unregister_serializer(TimestampName)
register_timestamp_deserializer == register_deserializer(TimestampName, "_from_datetime")
unregister_timestamp_deserializer == unregister_deserializer(TimestampName)

\* A top-level get_spark_schema(descriptor, options) call.
GetSparkSchema ==
    /\ args.op = "get_spark_schema"
    /\ last' = [op |-> "get_spark_schema", descriptor |-> args.descriptor,
                options |-> args.options,
                result |-> get_spark_schema(_message_type_to_spark_type_map,
                                            args.descriptor, args.options, {})]
    /\ UNCHANGED <<_custom_serializers, _custom_deserializers,
                   _message_type_to_spark_type_map, declared, args, routine, threads, heap, converters,
                   derivation>>

Next ==
    \/ RegisterSerializer
    \/ UnregisterSerializer
    \/ RegisterDeserializer
    \/ UnregisterDeserializer
    \/ register_timestamp_serializer
    \/ unregister_timestamp_serializer
    \/ register_timestamp_deserializer
    \/ unregister_timestamp_deserializer
    \/ GetSparkSchema

Spec == Init /\ [][Next]_vars

-----------------------------------------------------------------------------
(* Python values handled by the conversions.  Each is a record tagged by   *)
(* its Python type in field py.                                            *)

PyInt(n) == [py |-> "int", int |-> n]
PyStr(t) == [py |-> "str", str |-> t]
PyBytes(b) == [py |-> "bytes", bytes |-> b]
PyByteArray(b) == [py |-> "bytearray", bytes |-> b]
PyList(elems) == [py |-> "list", elems |-> elems]
PyDict(items) == [py |-> "dict", items |-> items]
PyEnum(n) == [py |-> "enum", name |-> n]
PyRaise(exc) == [py |-> "raise", exc |-> exc]
IsPyRaise(v) == v.py = "raise"
\* str(n): the decimal text of an integer.
IntText(n) == [py |-> "inttext", int |-> n]
\* base64.b64encode(b).decode(): the base64 text of a byte string.
B64Text(b) == [py |-> "b64text", bytes |-> b]
\* Timestamp.ToJsonString() / Duration.ToJsonString()
TimeText(seconds, nanos) == [py |-> "timetext", seconds |-> seconds, nanos |-> nanos]
\* A message instance: its type and its populated fields (ListFields).
Message(type, set) == [py |-> "message", type |-> type, set |-> set]
FreshMessage(type) == Message(type, EmptyDict)

FieldIndex(type, name) ==
    {i \in DOMAIN DescriptorFields[type] :
        \/ DescriptorFields[type][i].camelcase_name = name
        \/ DescriptorFields[type][i].name = name}
IsBytesField(field) == field.cpp_type = "CPPTYPE_STRING" /\ field.type = "TYPE_BYTES"
_INT64_TYPES == {"CPPTYPE_INT64", "CPPTYPE_UINT64"}
_WKTJSONMETHODS == {"google.protobuf.Timestamp", "google.protobuf.Duration"}

DefaultValue(field) ==
    CASE IsBytesField(field) -> PyBytes(<<>>)
      [] field.cpp_type = "CPPTYPE_STRING" /\ ~IsBytesField(field) -> PyStr("")
      [] field.cpp_type = "CPPTYPE_ENUM" -> PyEnum("unknown")
      [] OTHER -> PyInt(0)

GetField(message, name, default) == DictGet(message.set, name, default)

\* pbspark._timestamp._to_datetime: the timestamp as a native date-time.
_to_datetime(message) ==
    [py |-> "datetime",
     seconds |-> GetField(message, "seconds", PyInt(0)).int,
     nanos |-> GetField(message, "nanos", PyInt(0)).int]

\* decimal_serializer = lambda message: Decimal(message.value)
decimal_serializer(message) ==
    [py |-> "Decimal", text |-> GetField(message, "value", PyStr("")).str]

\* A caller's serializer that keeps only part of its message:
\* lambda message: message.at.seconds
at_seconds_serializer(message) ==
    PyInt(GetField(GetField(message, "at", FreshMessage(TimestampName)),
                   "seconds", PyInt(0)).int)

\* What a registered serializer returns for a message.
SerializerReturn(serializer, message) ==
    CASE serializer = "_to_datetime" -> _to_datetime(message)
      [] serializer = "decimal_serializer" -> decimal_serializer(message)
      [] serializer = "at_seconds_serializer" -> at_seconds_serializer(message)

-----------------------------------------------------------------------------
(* message_to_dict: _Printer over json_format._Printer                     *)

PrinterKeywords == {"including_default_value_fields", "preserving_proto_field_name",
                    "use_integers_for_enums", "descriptor_pool", "float_precision"}

RECURSIVE _MessageToJsonObject(_, _, _)
RECURSIVE _FieldToJsonObject(_, _, _, _)
RECURSIVE _RegularMessageToJsonObject(_, _, _)
RECURSIVE super_MessageToJsonObject(_, _, _)
RECURSIVE super_FieldToJsonObject(_, _, _, _)

\* json_format._Printer._FieldToJsonObject
super_FieldToJsonObject(sers, kw, field, value) ==
    CASE field.cpp_type = "CPPTYPE_MESSAGE" -> _MessageToJsonObject(sers, kw, value)
      [] field.cpp_type = "CPPTYPE_ENUM" -> PyStr(value.name)
      [] IsBytesField(field) -> B64Text(value.bytes)
      [] field.cpp_type \in _INT64_TYPES -> IntText(value.int)
      [] OTHER -> value

\* _Printer._FieldToJsonObject with the bytes branch left out.
_FieldToJsonObject_NoBytesBranch(sers, kw, field, value) ==
    IF field.cpp_type \in _INT64_TYPES THEN value
    ELSE super_FieldToJsonObject(sers, kw, field, value)

\* _Printer._FieldToJsonObject
_FieldToJsonObject(sers, kw, field, value) ==
    IF IsBytesField(field) THEN value
    ELSE IF field.cpp_type \in _INT64_TYPES THEN value
    ELSE super_FieldToJsonObject(sers, kw, field, value)

\* json_format._Printer._RegularMessageToJsonObject
_RegularMessageToJsonObject(sers, kw, message) ==
    LET fields == DescriptorFields[message.type]
        listed == {i \in DOMAIN fields : fields[i].name \in DOMAIN message.set}
        defaulted ==
            IF DictGet(kw, "including_default_value_fields", FALSE)
            THEN {i \in DOMAIN fields \ listed :
                    ~(fields[i].label # "LABEL_REPEATED"
                      /\ fields[i].cpp_type = "CPPTYPE_MESSAGE")}
            ELSE {}
        keyOf(i) == IF DictGet(kw, "preserving_proto_field_name", FALSE)
                    THEN fields[i].name ELSE fields[i].camelcase_name
        valueOf(i) ==
            IF i \in listed
            THEN LET v == message.set[fields[i].name]
                 IN IF fields[i].label = "LABEL_REPEATED"
                    THEN PyList([k \in DOMAIN v.elems |->
                                    _FieldToJsonObject(sers, kw, fields[i], v.elems[k])])
                    ELSE _FieldToJsonObject(sers, kw, fields[i], v)
            ELSE IF fields[i].label = "LABEL_REPEATED" THEN PyList(<<>>)
                 ELSE _FieldToJsonObject(sers, kw, fields[i], DefaultValue(fields[i]))
    IN PyDict([k \in {keyOf(i) : i \in listed \cup defaulted} |->
                  valueOf(CHOOSE i \in listed \cup defaulted : keyOf(i) = k)])

\* json_format._Printer._MessageToJsonObject
super_MessageToJsonObject(sers, kw, message) ==
    IF message.type \in _WKTJSONMETHODS
    THEN TimeText(GetField(message, "seconds", PyInt(0)).int,
                  GetField(message, "nanos", PyInt(0)).int)
    ELSE _RegularMessageToJsonObject(sers, kw, message)

\* _Printer._MessageToJsonObject consulting the well-known types first.
_MessageToJsonObject_WellKnownFirst(sers, kw, message) ==
    IF message.type \in _WKTJSONMETHODS \/ message.type \notin DOMAIN sers
    THEN super_MessageToJsonObject(sers, kw, message)
    ELSE SerializerReturn(sers[message.type], message)

\* _Printer._MessageToJsonObject
_MessageToJsonObject(sers, kw, message) ==
    IF message.type \in DOMAIN sers
    THEN SerializerReturn(sers[message.type], message)
    ELSE super_MessageToJsonObject(sers, kw, message)

\* MessageConverter.message_to_dict(message, **kwargs)
message_to_dict(sers, message, kwargs) ==
    IF ~(DOMAIN kwargs \subseteq PrinterKeywords) THEN PyRaise("TypeError")
    ELSE _MessageToJsonObject(sers, kwargs, message)

-----------------------------------------------------------------------------
(* parse_dict: _Parser over json_format._Parser.  The process-wide         *)
(* json_format._ConvertScalarFieldValue is a number: how many _handle_bytes *)
(* wrappers are around the original routine (0 is the original itself).    *)

ParserKeywords == {"ignore_unknown_fields", "descriptor_pool", "max_recursion_depth"}
DefaultMaxRecursionDepth == 100

\* What a conversion left behind: the message as populated so far and the
\* exception that ended it ("none" for a normal return).
Parsed(message, exc) == [msg |-> message, exc |-> exc]
Failed(r) == r.exc # "none"

\* message.<field> = value, as ListFields sees it afterwards.
SetField(message, field, value) ==
    IF \/ field.label = "LABEL_REPEATED" /\ value = PyList(<<>>)
       \/ field.label # "LABEL_REPEATED" /\ field.cpp_type # "CPPTYPE_MESSAGE"
          /\ value = DefaultValue(field)
    THEN [message EXCEPT !.set = DictPop(@, field.name)]
    ELSE [message EXCEPT !.set = DictSet(@, field.name, value)]

\* base64 decoding of raw bytes: three bytes out for every four in.
B64Decode(b) == SubSeq(b, 1, (3 * Len(b)) \div 4)

\* json_format._ConvertScalarFieldValue, the original routine.
_ConvertScalarFieldValue(value, field) ==
    CASE field.cpp_type \in {"CPPTYPE_INT32", "CPPTYPE_INT64", "CPPTYPE_UINT32",
                             "CPPTYPE_UINT64"} ->
            IF value.py \in {"int", "inttext"} THEN PyInt(value.int)
            ELSE PyRaise("ParseError")
      [] IsBytesField(field) ->
            CASE value.py = "b64text" -> PyBytes(value.bytes)
              [] value.py \in {"bytes", "bytearray"} -> PyBytes(B64Decode(value.bytes))
              [] OTHER -> PyRaise("ParseError")
      [] field.cpp_type = "CPPTYPE_STRING" /\ ~IsBytesField(field) ->
            IF value.py = "str" THEN value ELSE PyRaise("ParseError")
      [] field.cpp_type = "CPPTYPE_ENUM" ->
            IF value.py = "str" THEN PyEnum(value.str) ELSE PyRaise("ParseError")
      [] OTHER -> PyRaise("ParseError")

\* The wrapper without the bytes test: every field goes to the wrapped routine.
_handle_bytes_NoIntercept(value, field) == _ConvertScalarFieldValue(value, field)

\* The wrapper _handle_bytes(func) puts around the routine.
_handle_bytes(value, field) ==
    IF IsBytesField(field)
    THEN IF value.py \in {"bytes", "bytearray"} THEN PyBytes(value.bytes)
         ELSE PyRaise("TypeError")
    ELSE _ConvertScalarFieldValue(value, field)

\* A call of the process-wide routine when it has func wrappers.
CallScalarRoutine(func, value, field) ==
    IF func > 0 THEN _handle_bytes(value, field)
    ELSE _ConvertScalarFieldValue(value, field)

\* pbspark._timestamp._from_datetime: the inverse of _to_datetime, filling
\* the timestamp message in place.
_from_datetime(value, message) ==
    IF value.py = "datetime" /\ message.type = TimestampName
    THEN Parsed(SetField(SetField(message, DescriptorFields[TimestampName][1],
                                  PyInt(value.seconds)),
                         DescriptorFields[TimestampName][2], PyInt(value.nanos)),
                "none")
    ELSE Parsed(message, "AttributeError")

\* A caller's deserializer inverting decimal_serializer:
\* message.value = str(value)
decimal_deserializer(value, message) ==
    IF value.py = "Decimal" /\ message.type = "example.DecimalMessage"
    THEN Parsed(SetField(message, DescriptorFields["example.DecimalMessage"][1],
                         PyStr(value.text)), "none")
    ELSE Parsed(message, "AttributeError")

\* What a registered deserializer does to the message it is given.
DeserializerApply(deserializer, value, message) ==
    CASE deserializer = "_from_datetime" -> _from_datetime(value, message)
      [] deserializer = "decimal_deserializer" -> decimal_deserializer(value, message)

RECURSIVE ConvertMessage(_, _, _, _, _, _)
RECURSIVE super_ConvertMessage(_, _, _, _, _, _)
RECURSIVE _ConvertFieldValuePair(_, _, _, _, _, _, _)
RECURSIVE ConvertRepeated(_, _, _, _, _, _, _, _)

\* The loop over a repeated field's items from item k on; `done` holds the
\* elements added to the field so far.
ConvertRepeated(desers, kw, func, depth, field, items, k, done) ==
    IF k > Len(items) THEN Parsed(PyList(done), "none")
    ELSE IF field.cpp_type = "CPPTYPE_MESSAGE"
         THEN LET sub == ConvertMessage(desers, kw, func, depth, items[k],
                                        FreshMessage(field.message_type))
              IN IF Failed(sub) THEN Parsed(PyList(Append(done, sub.msg)), sub.exc)
                 ELSE ConvertRepeated(desers, kw, func, depth, field, items,
                                      k + 1, Append(done, sub.msg))
         ELSE LET v == CallScalarRoutine(func, items[k], field)
              IN IF IsPyRaise(v) THEN Parsed(PyList(done), "ParseError")
                 ELSE ConvertRepeated(desers, kw, func, depth, field, items,
                                      k + 1, Append(done, v))

\* json_format._Parser._ConvertFieldValuePair from the descriptor's field i on.
_ConvertFieldValuePair(desers, kw, func, depth, js, message, i) ==
    LET fields == DescriptorFields[message.type]
    IN IF i > Len(fields) THEN Parsed(message, "none")
       ELSE
        LET field == fields[i]
            keys == {field.camelcase_name, field.name} \cap DOMAIN js.items
            value == js.items[CHOOSE k \in keys : TRUE]
            rest(m) == _ConvertFieldValuePair(desers, kw, func, depth, js, m, i + 1)
        IN IF keys = {} THEN rest(message)
           ELSE IF field.label = "LABEL_REPEATED"
                THEN IF value.py # "list" THEN Parsed(message, "ParseError")
                     ELSE LET r == ConvertRepeated(desers, kw, func, depth, field,
                                                   value.elems, 1, <<>>)
                          IN IF Failed(r)
                             THEN Parsed(SetField(message, field, r.msg), r.exc)
                             ELSE rest(SetField(message, field, r.msg))
           ELSE IF field.cpp_type = "CPPTYPE_MESSAGE"
                THEN LET sub == ConvertMessage(desers, kw, func, depth, value,
                                               FreshMessage(field.message_type))
                     IN IF Failed(sub)
                        THEN Parsed(SetField(message, field, sub.msg), sub.exc)
                        ELSE rest(SetField(message, field, sub.msg))
           ELSE LET v == CallScalarRoutine(func, value, field)
                IN IF IsPyRaise(v) THEN Parsed(message, "ParseError")
                   ELSE rest(SetField(message, field, v))

\* json_format._Parser.ConvertMessage
super_ConvertMessage(desers, kw, func, depth, value, message) ==
    LET recursion_depth == depth + 1
        max_recursion_depth == DictGet(kw, "max_recursion_depth", DefaultMaxRecursionDepth)
        unknown == {k \in DOMAIN value.items : FieldIndex(message.type, k) = {}}
    IN IF recursion_depth > max_recursion_depth THEN Parsed(message, "ParseError")
       ELSE IF message.type \in _WKTJSONMETHODS
            THEN IF value.py = "timetext"
                 THEN Parsed(SetField(SetField(message,
                                               DescriptorFields[message.type][1],
                                               PyInt(value.seconds)),
                                      DescriptorFields[message.type][2],
                                      PyInt(value.nanos)), "none")
                 ELSE Parsed(message, "ParseError")
       ELSE IF value.py # "dict" THEN Parsed(message, "TypeError")
       ELSE IF unknown # {} /\ ~DictGet(kw, "ignore_unknown_fields", FALSE)
            THEN Parsed(message, "ParseError")
       ELSE _ConvertFieldValuePair(desers, kw, func, recursion_depth, value,
                                   message, 1)

\* _Parser.ConvertMessage handing every message to the default conversion.
ConvertMessage_NoCustom(desers, kw, func, depth, value, message) ==
    super_ConvertMessage(desers, kw, func + 1, depth, value, message)

\* _Parser.ConvertMessage; inside the with block the routine has one more
\* wrapper, and the block's exit takes it off again.
ConvertMessage(desers, kw, func, depth, value, message) ==
    IF message.type \in DOMAIN desers
    THEN DeserializerApply(desers[message.type], value, message)
    ELSE super_ConvertMessage(desers, kw, func + 1, depth, value, message)

\* MessageConverter.parse_dict(value, message, **kwargs)
parse_dict(desers, value, message, kwargs) ==
    IF ~(DOMAIN kwargs \subseteq ParserKeywords) THEN Parsed(message, "TypeError")
    ELSE ConvertMessage(desers, kwargs, 0, 0, value, message)

\* What a call of parse_dict hands back to its caller: ConvertMessage
\* returns nothing, and an exception passes through.
PyNone == [py |-> "None"]
ReturnValue(r) == IF Failed(r) THEN PyRaise(r.exc) ELSE PyNone

\* message.SerializeToString(): the wire form of the populated fields.
SerializeToString(message) ==
    [py |-> "wire", type |-> message.type, fields |-> message.set]

\* An encoder that serializes whatever parse_dict left in the message.
encoder_NoAbort(desers, message_type, s, kwargs) ==
    SerializeToString(parse_dict(desers, s, FreshMessage(message_type), kwargs).msg)

\* get_encoder(message_type, options)(s)
encoder(desers, message_type, s, kwargs) ==
    LET parsed == parse_dict(desers, s, FreshMessage(message_type), kwargs)
    IN IF Failed(parsed) THEN PyRaise(parsed.exc)
       ELSE SerializeToString(parsed.msg)

-----------------------------------------------------------------------------
(* Conversion calls                                                        *)

MaxBytesLen == 2
ByteValues == {1, 2}
\* The non-empty byte strings of at most MaxBytesLen bytes.
ByteStrings == UNION {[1..n -> ByteValues] : n \in 1..MaxBytesLen}

Ts1 == Message(TimestampName, ("seconds" :> PyInt(1) @@ "nanos" :> PyInt(5)))
Ts2 == Message(TimestampName, ("seconds" :> PyInt(2)))
Dur1 == Message(DurationName, ("seconds" :> PyInt(1) @@ "nanos" :> PyInt(1)))
Dec1 == Message("example.DecimalMessage", ("value" :> PyStr("3.50")))
Nested(b) == Message("example.NestedMessage",
                     ("key" :> PyStr("hello") @@ "raw_value" :> PyBytes(b)))
Example(b) ==
    Message("example.ExampleMessage",
            ("int32" :> PyInt(69) @@ "int64" :> PyInt(2147483647)
             @@ "enum" :> PyEnum("first") @@ "bytes" :> PyBytes(b)
             @@ "nested" :> Nested(b)
             @@ "stringlist" :> PyList(<<PyStr("one"), PyStr("two")>>)
             @@ "timestamp" :> Ts1 @@ "decimal" :> Dec1))
Shared1 == Message("example.Shared", ("at" :> Ts1 @@ "old_at" :> Ts2 @@ "took" :> Dur1))
Shared2 == Message("example.Shared", ("at" :> Ts2))
Right1 == Message("example.Right",
                  ("shared" :> Shared1 @@ "more_shared" :> PyList(<<Shared2, Shared1>>)))
SelfRef1 == Message("example.SelfRef",
                    ("self_ref" :> Message("example.SelfRef", ("created_at" :> Ts2))
                     @@ "created_at" :> Ts1))

\* The message instances handed to the conversions.
Messages == {Ts1, Dec1, Shared1, Right1, SelfRef1}
            \cup {Nested(b) : b \in ByteStrings} \cup {Example(b) : b \in ByteStrings}

\* The keyword dicts callers pass to message_to_dict and to parse_dict.
PrinterKwargs == {EmptyDict, [k \in {"preserving_proto_field_name"} |-> TRUE],
                  [k \in {"including_default_value_fields"} |-> TRUE],
                  [k \in {"ignore_deprecated"} |-> TRUE]}
ParserKwargs == {EmptyDict, [k \in {"ignore_unknown_fields"} |-> TRUE],
                 [k \in {"max_recursion_depth"} |-> 1]}

NoSource == [py |-> "none"]
\* Mappings written by hand: raw bytes and bytearray values for bytes
\* fields, base64 text, and a key no field matches.
HandMappings ==
    {[type |-> "example.NestedMessage",
      value |-> PyDict(("key" :> PyStr("hello") @@ "rawValue" :> PyByteArray(b)))]
        : b \in ByteStrings}
    \cup {[type |-> "example.ExampleMessage",
           value |-> PyDict(("int32" :> PyInt(69) @@ "bytes" :> PyBytes(b)
                             @@ "nested" :> PyDict(("raw_value" :> PyByteArray(b)))))]
        : b \in ByteStrings}
    \cup {[type |-> "example.NestedMessage",
           value |-> PyDict(("key" :> PyStr("hello") @@ "nope" :> PyInt(1)))],
          [type |-> "example.NestedMessage",
           value |-> PyDict(("rawValue" :> B64Text(<<1, 2>>)))]}

\* The rows handed to the encoder: the hand-written mappings and one with
\* text where an integer is expected.
EncoderMappings ==
    HandMappings
    \cup {[type |-> "example.ExampleMessage",
           value |-> PyDict(("bytes" :> PyBytes(<<1>>) @@ "int32" :> PyStr("abc")))]}

\* The conversion calls callers make.
ConvertCalls ==
    {[op |-> "message_to_dict", message |-> m, kwargs |-> kw]
        : m \in Messages, kw \in PrinterKwargs}
    \cup {[op |-> "decoder_udf", message |-> m, options |-> o]
        : m \in Messages, o \in OptionDicts}
    \cup {[op |-> "parse_decoded", message |-> m, printer_kwargs |-> pk, kwargs |-> kw]
        : m \in Messages, pk \in PrinterKwargs, kw \in ParserKwargs}
    \cup {[op |-> "parse_dict", type |-> h.type, value |-> h.value, kwargs |-> kw]
        : h \in HandMappings, kw \in ParserKwargs}
    \cup {[op |-> "encoder", type |-> h.type, value |-> h.value, options |-> kw]
        : h \in EncoderMappings, kw \in ParserKwargs}

InitConvert == NewConverter /\ args \in ConvertCalls /\ threads = NoThreads

Unchanged == <<_custom_serializers, _custom_deserializers,
               _message_type_to_spark_type_map, declared, args, routine, threads, heap, converters,
                   derivation>>

\* message_to_dict(message, **kwargs)
MessageToDict ==
    /\ args.op = "message_to_dict"
    /\ last' = [op |-> "message_to_dict", message |-> args.message,
                kwargs |-> args.kwargs,
                result |-> message_to_dict(_custom_serializers, args.message,
                                           args.kwargs)]
    /\ UNCHANGED Unchanged

\* get_decoder_udf(message_type, options) and its decoder applied to the
\* serialized form of a message of that type.
DecoderUdf ==
    /\ args.op = "decoder_udf"
    /\ LET schema == get_spark_schema(_message_type_to_spark_type_map,
                                      args.message.type, args.options, {})
       IN last' = [op |-> "decoder_udf", message |-> args.message,
                   options |-> args.options, schema |-> schema,
                   result |-> IF IsRaise(schema.ret) THEN PyRaise("no udf")
                              ELSE message_to_dict(_custom_serializers,
                                                   args.message, args.options)]
    /\ UNCHANGED Unchanged

\* parse_dict(value, message_type(), **kwargs) on what message_to_dict
\* returned for a message.
ParseDictOfDecoded ==
    /\ args.op = "parse_decoded"
    /\ LET value == message_to_dict(_custom_serializers, args.message,
                                    args.printer_kwargs)
       IN /\ ~IsPyRaise(value)
          /\ last' = [op |-> "parse_dict", source |-> args.message, value |-> value,
                      kwargs |-> args.kwargs,
                      result |-> parse_dict(_custom_deserializers, value,
                                            FreshMessage(args.message.type),
                                            args.kwargs),
                      returned |-> ReturnValue(
                                       parse_dict(_custom_deserializers, value,
                                                  FreshMessage(args.message.type),
                                                  args.kwargs))]
    /\ UNCHANGED Unchanged

\* parse_dict(value, message_type(), **kwargs) on a mapping written by hand.
ParseDictOfMapping ==
    /\ args.op = "parse_dict"
    /\ last' = [op |-> "parse_dict", source |-> NoSource, value |-> args.value,
                kwargs |-> args.kwargs,
                result |-> parse_dict(_custom_deserializers, args.value,
                                      FreshMessage(args.type), args.kwargs),
                returned |-> ReturnValue(parse_dict(_custom_deserializers, args.value,
                                                    FreshMessage(args.type),
                                                    args.kwargs))]
    /\ UNCHANGED Unchanged

\* The function get_encoder(message_type, options) returns, applied to a
\* mapping: what it returns, and the message it built on the way.
Encoder ==
    /\ args.op = "encoder"
    /\ last' = [op |-> "encoder", source |-> NoSource, value |-> args.value,
                kwargs |-> args.options,
                result |-> parse_dict(_custom_deserializers, args.value,
                                      FreshMessage(args.type), args.options),
                returned |-> encoder(_custom_deserializers, args.type, args.value,
                                     args.options)]
    /\ UNCHANGED Unchanged

NextConvert ==
    \/ RegisterSerializer
    \/ UnregisterSerializer
    \/ RegisterDeserializer
    \/ UnregisterDeserializer
    \/ register_timestamp_serializer
    \/ unregister_timestamp_serializer
    \/ register_timestamp_deserializer
    \/ unregister_timestamp_deserializer
    \/ MessageToDict
    \/ DecoderUdf
    \/ ParseDictOfDecoded
    \/ ParseDictOfMapping
    \/ Encoder

SpecConvert == InitConvert /\ [][NextConvert]_vars

-----------------------------------------------------------------------------
(* parse_dict calls running in several threads.  Each thread's call is a   *)
(* stack of ConvertMessage frames; a step is one access to the             *)
(* process-wide routine, or the work between two of them.                  *)

NumThreads == 2
Threads == 1..NumThreads

\* The mappings the threads decode and the message types they fill.
ThreadInputs ==
    {[type |-> "example.NestedMessage",
      value |-> PyDict(("rawValue" :> PyByteArray(<<1, 2>>)))],
     [type |-> "example.ExampleMessage",
      value |-> PyDict(("bytes" :> PyBytes(<<1, 2>>)
                        @@ "nested" :> PyDict(("raw_value" :> PyByteArray(<<1, 2>>)))
                        @@ "timestamp" :> _to_datetime(Ts1)))],
     [type |-> "example.NestedMessage",
      value |-> PyDict(("rawValue" :> B64Text(<<1, 2>>)))]}

NoResult == [exc |-> "running"]
Frame(value, message) ==
    [pc |-> "enter", value |-> value, message |-> message, i |-> 0, k |-> 1,
     saved |-> 0, read |-> 0, exc |-> "none"]
CallOf(input) ==
    [input |-> input, result |-> NoResult,
     stack |-> <<Frame(input.value, FreshMessage(input.type))>>]

InitThreads ==
    /\ NewConverter
    /\ args = [op |-> "threads"]
    /\ threads \in [Threads -> {CallOf(input) : input \in ThreadInputs}]

Running(t) == threads[t].stack # <<>>
Top(t) == threads[t].stack[Len(threads[t].stack)]
AtPc(t, pc) == Running(t) /\ Top(t).pc = pc
WithTop(t, frame) ==
    [threads EXCEPT ![t].stack = [@ EXCEPT ![Len(@)] = frame]]
Configured == <<_custom_serializers, _custom_deserializers,
                _message_type_to_spark_type_map, declared, args, heap, converters,
                derivation,                last>>

\* The first field at or after i that the mapping has a key for.
NextPresent(type, js, i) ==
    LET present == {j \in i..Len(DescriptorFields[type]) :
                        {DescriptorFields[type][j].camelcase_name,
                         DescriptorFields[type][j].name} \cap DOMAIN js.items # {}}
    IN IF present = {} THEN Len(DescriptorFields[type]) + 1
       ELSE CHOOSE j \in present : \A k \in present : j <= k

\* The top ConvertMessage call of thread t ends with the message as filled
\* so far and exception exc ("none": a normal return): the caller's frame
\* takes the sub-message (as the next element, for a repeated field) and
\* goes on or unwinds, or the thread is done.
Returned(t, message, exc) ==
    LET stack == threads[t].stack
        rest == SubSeq(stack, 1, Len(stack) - 1)
    IN IF rest = <<>>
       THEN [threads EXCEPT ![t].stack = <<>>, ![t].result = Parsed(message, exc)]
       ELSE LET caller == rest[Len(rest)]
                field == DescriptorFields[caller.message.type][caller.i]
                added == DictGet(caller.message.set, field.name, PyList(<<>>)).elems
                taken == IF field.label = "LABEL_REPEATED"
                         THEN [caller EXCEPT
                                  !.message = SetField(@, field,
                                                       PyList(Append(added, message)))]
                         ELSE [caller EXCEPT !.message = SetField(@, field, message)]
            IN [threads EXCEPT ![t].stack =
                    [rest EXCEPT ![Len(rest)] =
                        IF exc # "none"
                        THEN [taken EXCEPT !.exc = exc, !.pc = "restore"]
                        ELSE IF field.label = "LABEL_REPEATED"
                        THEN [taken EXCEPT !.k = @ + 1]
                        ELSE [taken EXCEPT !.i = NextPresent(caller.message.type,
                                                                   caller.value, @ + 1)]]]

\* _Parser.ConvertMessage up to line 136: the custom deserializer, or the
\* read of the routine to put back later.
Enter(t) ==
    /\ AtPc(t, "enter")
    /\ LET frame == Top(t)
       IN IF frame.message.type \in DOMAIN _custom_deserializers
          THEN LET r == DeserializerApply(_custom_deserializers[frame.message.type],
                                          frame.value, frame.message)
               IN threads' = Returned(t, r.msg, r.exc)
          ELSE threads' = WithTop(t, [frame EXCEPT !.saved = routine, !.pc = "wrap"])
    /\ UNCHANGED <<routine, Configured>>

\* Line 138: the routine handed to _handle_bytes.
Wrap(t) ==
    /\ AtPc(t, "wrap")
    /\ threads' = WithTop(t, [Top(t) EXCEPT !.read = routine, !.pc = "install"])
    /\ UNCHANGED <<routine, Configured>>

\* Line 137: the wrapper becomes the process-wide routine.
Install(t) ==
    /\ AtPc(t, "install")
    /\ routine' = Top(t).read + 1
    /\ threads' = WithTop(t, [Top(t) EXCEPT !.pc = "body"])
    /\ UNCHANGED Configured

\* super().ConvertMessage inside the with block: its checks, then one
\* field of the mapping per step, each scalar through the routine that is
\* process-wide at that moment.
Body(t) ==
    /\ AtPc(t, "body")
    /\ LET frame == Top(t)
           type == frame.message.type
           fields == DescriptorFields[type]
           raise(exc) == WithTop(t, [frame EXCEPT !.exc = exc, !.pc = "restore"])
           unknown == {k \in DOMAIN frame.value.items : FieldIndex(type, k) = {}}
       IN IF frame.i = 0
          THEN IF Len(threads[t].stack) > DefaultMaxRecursionDepth
               THEN threads' = raise("ParseError")
               ELSE IF type \in _WKTJSONMETHODS
               THEN LET r == super_ConvertMessage(_custom_deserializers, EmptyDict,
                                                  routine, 0, frame.value, frame.message)
                    IN threads' = WithTop(t, [frame EXCEPT !.message = r.msg,
                                                          !.exc = r.exc,
                                                          !.pc = "restore"])
               ELSE IF frame.value.py # "dict" THEN threads' = raise("TypeError")
               ELSE IF unknown # {} THEN threads' = raise("ParseError")
               ELSE threads' = WithTop(t, [frame EXCEPT
                                              !.i = NextPresent(type, frame.value, 1)])
          ELSE IF frame.i > Len(fields)
          THEN threads' = WithTop(t, [frame EXCEPT !.pc = "restore"])
          ELSE
            LET field == fields[frame.i]
                keys == {field.camelcase_name, field.name} \cap DOMAIN frame.value.items
                value == frame.value.items[CHOOSE k \in keys : TRUE]
                next == NextPresent(type, frame.value, frame.i + 1)
            IN IF field.label = "LABEL_REPEATED"
               THEN IF value.py # "list" THEN threads' = raise("ParseError")
                    ELSE IF field.cpp_type = "CPPTYPE_MESSAGE"
                    THEN IF frame.k > Len(value.elems)
                         THEN threads' = WithTop(t, [frame EXCEPT !.i = next, !.k = 1])
                         ELSE threads' = [threads EXCEPT ![t].stack =
                                    Append(@, Frame(value.elems[frame.k],
                                                    FreshMessage(field.message_type)))]
                    ELSE LET r == ConvertRepeated(_custom_deserializers, EmptyDict,
                                                  routine, Len(threads[t].stack),
                                                  field, value.elems, 1, <<>>)
                         IN threads' = WithTop(t,
                                [frame EXCEPT !.message = SetField(@, field, r.msg),
                                              !.i = IF Failed(r) THEN @ ELSE next,
                                              !.exc = r.exc,
                                              !.pc = IF Failed(r) THEN "restore" ELSE @])
               ELSE IF field.cpp_type = "CPPTYPE_MESSAGE"
               THEN threads' = [threads EXCEPT ![t].stack =
                                    Append(@, Frame(value,
                                                    FreshMessage(field.message_type)))]
               ELSE LET v == CallScalarRoutine(routine, value, field)
                    IN IF IsPyRaise(v) THEN threads' = raise("ParseError")
                       ELSE threads' = WithTop(t,
                                [frame EXCEPT !.message = SetField(@, field, v),
                                              !.i = next])
    /\ UNCHANGED <<routine, Configured>>

\* The with block without its try / finally: the routine is put back on a
\* normal exit only.
Restore_NoFinally(t) ==
    /\ AtPc(t, "restore")
    /\ routine' = IF Top(t).exc = "none" THEN Top(t).saved ELSE routine
    /\ threads' = Returned(t, Top(t).message, Top(t).exc)
    /\ UNCHANGED Configured

\* Line 143, the finally clause: the routine read at entry is put back and
\* the call returns or goes on raising.
Restore(t) ==
    /\ AtPc(t, "restore")
    /\ routine' = Top(t).saved
    /\ threads' = Returned(t, Top(t).message, Top(t).exc)
    /\ UNCHANGED Configured

NextThreads ==
    \E t \in DOMAIN threads : Enter(t) \/ Wrap(t) \/ Install(t) \/ Body(t) \/ Restore(t)

SpecThreads == InitThreads /\ [][NextThreads]_vars

-----------------------------------------------------------------------------
(* One parse_dict call in a single thread, started with the process-wide   *)
(* routine either original or already wrapped.                             *)

\* The mappings of the single call: nesting up to three messages deep,
\* custom and built-in conversions of nested messages, and failures at the
\* top level and inside a nested message.
OneThreadInputs ==
    ThreadInputs
    \cup {[type |-> h.type, value |-> h.value] : h \in EncoderMappings}
    \cup {[type |-> "example.SelfRef",
           value |-> PyDict(("self_ref" :>
                                PyDict(("selfRef" :>
                                           PyDict(("created_at" :> _to_datetime(Ts2)))))
                             @@ "created_at" :> _to_datetime(Ts1)))],
          [type |-> "example.ExampleMessage",
           value |-> PyDict(("int32" :> PyInt(69)
                             @@ "nested" :> PyDict(("key" :> PyStr("hello")
                                                    @@ "raw_value" :> B64Text(<<1, 2>>)))))],
          [type |-> "example.Right",
           value |-> PyDict(("shared" :> PyDict(("at" :> _to_datetime(Ts1)
                                                 @@ "took" :> TimeText(1, 1)))
                             @@ "more_shared" :>
                                 PyList(<<PyDict(("at" :> _to_datetime(Ts2)))>>)))],
          [type |-> "example.Right",
           value |-> PyDict(("shared" :> PyDict(("took" :> PyStr("soon")))))]}
\* The wrappers around the routine when the call starts.
RoutinesBefore == {0, 1}

InitOneThread ==
    /\ heap = ModuleObjects
    /\ converters = <<>>
    /\ derivation = NoDerivation
    /\ _custom_serializers = [n \in {TimestampName} |-> "_to_datetime"]
    /\ _custom_deserializers \in {[n \in {TimestampName} |-> "_from_datetime"],
                                  EmptyDict}
    /\ _message_type_to_spark_type_map =
           DictSet(_MESSAGETYPE_TO_SPARK_TYPE_MAP, TimestampName, TimestampType)
    /\ declared = [n \in {TimestampName} |-> TimestampType]
    /\ last = NoCall
    /\ routine \in RoutinesBefore
    /\ args = [op |-> "one_thread", before |-> routine]
    /\ threads \in [{1} -> {CallOf(input) : input \in OneThreadInputs}]

SpecOneThread == InitOneThread /\ [][NextThreads]_vars

-----------------------------------------------------------------------------
(* Several MessageConverter instances in one process.  A converter is the  *)
(* three dict objects its attributes refer to; the methods write through   *)
(* those references.                                                       *)

MaxConverters == 2

\* Lines 150-152: the dicts the k-th converter constructed refers to, two
\* new empty ones and a new copy of the module-level table.
ObjectsOf_SharedTable(k) ==
    [_custom_serializers |-> (3 * k) - 2,
     _custom_deserializers |-> (3 * k) - 1,
     _message_type_to_spark_type_map |-> ModuleTable]
ObjectsOf(k) ==
    [_custom_serializers |-> (3 * k) - 2,
     _custom_deserializers |-> (3 * k) - 1,
     _message_type_to_spark_type_map |-> 3 * k]

self_register_serializer(h, self, full_name, serializer, return_type) ==
    LET stored == [h EXCEPT ![self._custom_serializers] =
                                DictSet(@, full_name, serializer)]
    IN [stored EXCEPT ![self._message_type_to_spark_type_map] =
                          DictSet(@, full_name, return_type)]

self_unregister_serializer(h, self, full_name) ==
    LET popped == [h EXCEPT ![self._custom_serializers] = DictPop(@, full_name)]
        cleared == [popped EXCEPT ![self._message_type_to_spark_type_map] =
                                      DictPop(@, full_name)]
    IN IF full_name \in DOMAIN cleared[ModuleTable]
       THEN [cleared EXCEPT ![self._message_type_to_spark_type_map] =
                                DictSet(@, full_name, cleared[ModuleTable][full_name])]
       ELSE cleared

self_register_deserializer(h, self, full_name, deserializer) ==
    [h EXCEPT ![self._custom_deserializers] = DictSet(@, full_name, deserializer)]

self_unregister_deserializer(h, self, full_name) ==
    [h EXCEPT ![self._custom_deserializers] = DictPop(@, full_name)]

\* MessageConverter.__init__ on the objects of self.
MessageConverter__init__(h, self) ==
    LET made == h @@ (self._custom_serializers :> EmptyDict)
                  @@ (self._custom_deserializers :> EmptyDict)
                  @@ (self._message_type_to_spark_type_map :> h[ModuleTable])
        serializing == self_register_serializer(made, self, TimestampName,
                                                "_to_datetime", TimestampType)
    IN self_register_deserializer(serializing, self, TimestampName, "_from_datetime")

\* What callers register on the instances.
InstanceRegistrations ==
    {r \in Registrations : r.message = "example.DecimalMessage"}
        \cup {[message |-> TimestampName, serializer |-> "_to_datetime",
               return_type |-> TimestampType]}
InstanceDeserializers ==
    {[message |-> "example.DecimalMessage", deserializer |-> "decimal_deserializer"],
     [message |-> TimestampName, deserializer |-> "_from_datetime"]}

InitInstances ==
    /\ heap = ModuleObjects
    /\ converters = <<>>
    /\ derivation = NoDerivation
    /\ _custom_serializers = EmptyDict
    /\ _custom_deserializers = EmptyDict
    /\ _message_type_to_spark_type_map = EmptyDict
    /\ declared = EmptyDict
    /\ args = [op |-> "instances"]
    /\ routine = 0
    /\ threads = NoThreads
    /\ last = NoCall

Elsewhere == <<_custom_serializers, _custom_deserializers,
               _message_type_to_spark_type_map, declared, args, routine, threads,
               derivation>>

Construct ==
    /\ Len(converters) < MaxConverters
    /\ LET k == Len(converters) + 1
       IN /\ converters' = Append(converters, ObjectsOf(k))
          /\ heap' = MessageConverter__init__(heap, ObjectsOf(k))
          /\ last' = [op |-> "__init__", self |-> k]
    /\ UNCHANGED Elsewhere

InstanceRegisterSerializer ==
    \E c \in DOMAIN converters, r \in InstanceRegistrations :
        /\ heap' = self_register_serializer(heap, converters[c], r.message,
                                            r.serializer, r.return_type)
        /\ last' = [op |-> "register_serializer", self |-> c]
        /\ UNCHANGED <<converters, Elsewhere>>

InstanceUnregisterSerializer ==
    \E c \in DOMAIN converters, r \in InstanceRegistrations :
        /\ heap' = self_unregister_serializer(heap, converters[c], r.message)
        /\ last' = [op |-> "unregister_serializer", self |-> c]
        /\ UNCHANGED <<converters, Elsewhere>>

InstanceRegisterDeserializer ==
    \E c \in DOMAIN converters, d \in InstanceDeserializers :
        /\ heap' = self_register_deserializer(heap, converters[c], d.message,
                                              d.deserializer)
        /\ last' = [op |-> "register_deserializer", self |-> c]
        /\ UNCHANGED <<converters, Elsewhere>>

InstanceUnregisterDeserializer ==
    \E c \in DOMAIN converters, d \in InstanceDeserializers :
        /\ heap' = self_unregister_deserializer(heap, converters[c], d.message)
        /\ last' = [op |-> "unregister_deserializer", self |-> c]
        /\ UNCHANGED <<converters, Elsewhere>>

NextInstances ==
    \/ Construct
    \/ InstanceRegisterSerializer
    \/ InstanceUnregisterSerializer
    \/ InstanceRegisterDeserializer
    \/ InstanceUnregisterDeserializer

SpecInstances == InitInstances /\ [][NextInstances]_vars

-----------------------------------------------------------------------------
(* One get_spark_schema call step by step: a frame per recursive call,     *)
(* holding its descriptor, its own copy of the seen set, the field it is   *)
(* at and the entries appended so far.                                     *)

SchemaFrame(descriptor, _seen_descriptors) ==
    [descriptor |-> descriptor, seen |-> _seen_descriptors, i |-> 0, schema |-> <<>>]
Deriving == [ret |-> [kind |-> "deriving"]]
DerivationOf(descriptor, options) ==
    [descriptor |-> descriptor, options |-> options, log |-> <<>>,
     result |-> Deriving, stack |-> <<SchemaFrame(descriptor, {})>>]

\* The schema maps the derivation runs against: the new converter's, and
\* that with a serializer registered for example.Shared.
SchemaMaps ==
    {DictSet(_MESSAGETYPE_TO_SPARK_TYPE_MAP, TimestampName, TimestampType),
     DictSet(DictSet(_MESSAGETYPE_TO_SPARK_TYPE_MAP, TimestampName, TimestampType),
             "example.Shared", LongType)}

InitSchema ==
    /\ heap = ModuleObjects
    /\ converters = <<>>
    /\ _custom_serializers = [n \in {TimestampName} |-> "_to_datetime"]
    /\ _custom_deserializers = [n \in {TimestampName} |-> "_from_datetime"]
    /\ _message_type_to_spark_type_map \in SchemaMaps
    /\ declared = [n \in {TimestampName} |-> TimestampType]
    /\ last = NoCall
    /\ routine = 0
    /\ threads = NoThreads
    /\ args = [op |-> "derivation"]
    /\ derivation \in {DerivationOf(d, o) : d \in MessageTypes, o \in OptionDicts}

SchemaRunning == derivation.stack # <<>>
SchemaTop == derivation.stack[Len(derivation.stack)]
SchemaFixed == <<_custom_serializers, _custom_deserializers,
                 _message_type_to_spark_type_map, declared, args, routine, threads,
                 heap, converters, last>>

\* The entry a descriptor field gets for spark type t (lines 303-306).
SchemaEntry(field, t) ==
    StructField(IF DictGet(derivation.options, "preserving_proto_field_name", FALSE)
                THEN field.name ELSE field.camelcase_name,
                IF field.label = "LABEL_REPEATED" THEN ArrayType(t, TRUE) ELSE t,
                TRUE)

\* The top call returns ret: to the caller of get_spark_schema, or to the
\* loop of the call below, which appends the entry and goes to its next field.
SchemaReturned(ret) ==
    LET stack == derivation.stack
        rest == SubSeq(stack, 1, Len(stack) - 1)
    IN IF rest = <<>>
       THEN [derivation EXCEPT !.stack = <<>>, !.result = Outcome(ret, derivation.log)]
       ELSE LET caller == rest[Len(rest)]
                field == DescriptorFields[caller.descriptor][caller.i]
            IN [derivation EXCEPT !.stack =
                   [rest EXCEPT ![Len(rest)] =
                       [caller EXCEPT !.schema = Append(@, SchemaEntry(field, ret)),
                                      !.i = @ + 1]]]
\* An exception leaves every open call.
SchemaRaised(exc) ==
    [derivation EXCEPT !.stack = <<>>, !.result = Outcome(Raise(exc), derivation.log)]

\* Lines 253-269: the seen set is copied and takes the descriptor's name; a
\* descriptor in the schema map returns its entry.
SchemaEnter ==
    /\ SchemaRunning
    /\ SchemaTop.i = 0
    /\ LET frame == SchemaTop
       IN IF frame.descriptor \in DOMAIN _message_type_to_spark_type_map
          THEN derivation' =
                   SchemaReturned(_message_type_to_spark_type_map[frame.descriptor])
          ELSE derivation' =
                   [derivation EXCEPT !.stack[Len(derivation.stack)] =
                       [frame EXCEPT !.seen = @ \cup {frame.descriptor}, !.i = 1]]
    /\ UNCHANGED SchemaFixed

\* Lines 271-307: one pass of the loop over the descriptor's fields.
SchemaField ==
    /\ SchemaRunning
    /\ SchemaTop.i \in 1..Len(DescriptorFields[SchemaTop.descriptor])
    /\ LET frame == SchemaTop
           field == DescriptorFields[frame.descriptor][frame.i]
           map == _message_type_to_spark_type_map
           options == derivation.options
           skip(lg) == [derivation EXCEPT !.log = lg,
                                          !.stack[Len(derivation.stack)].i = @ + 1]
           append(t) ==
               [derivation EXCEPT !.stack[Len(derivation.stack)] =
                   [frame EXCEPT !.schema = Append(@, SchemaEntry(field, t)),
                                 !.i = @ + 1]]
       IN IF field.message_type = None THEN derivation' = SchemaRaised("AttributeError")
          ELSE IF field.deprecated /\ DictGet(options, "ignore_deprecated", FALSE)
          THEN derivation' = skip(derivation.log)
          ELSE IF field.message_type \in frame.seen
          THEN IF DictGet(options, "ignore_circular_definitions", FALSE)
               THEN derivation' = skip(Append(derivation.log, field.message_type))
               ELSE derivation' = SchemaRaised("ValueError")
          ELSE IF field.cpp_type = "CPPTYPE_MESSAGE"
          THEN IF field.message_type \in DOMAIN map
               THEN derivation' = append(map[field.message_type])
               ELSE derivation' =
                        [derivation EXCEPT !.stack =
                            Append(@, SchemaFrame(field.message_type, frame.seen))]
          ELSE IF field.cpp_type = "CPPTYPE_STRING" /\ field.type = "TYPE_BYTES"
          THEN derivation' = append(BinaryType)
          ELSE derivation' = append(_CPPTYPE_TO_SPARK_TYPE_MAP[field.cpp_type])
    /\ UNCHANGED SchemaFixed

\* Lines 308-309: the loop is over and the record is returned.
SchemaFinish ==
    /\ SchemaRunning
    /\ SchemaTop.i > Len(DescriptorFields[SchemaTop.descriptor])
    /\ derivation' = SchemaReturned(StructType(SchemaTop.schema))
    /\ UNCHANGED SchemaFixed

NextSchema == SchemaEnter \/ SchemaField \/ SchemaFinish

SpecSchema == InitSchema /\ [][NextSchema]_vars
\* A call in progress goes on: nothing else runs in its thread.
SpecSchemaFair == SpecSchema /\ WF_vars(NextSchema)

-----------------------------------------------------------------------------
(* Properties of the override registry                                     *)

AllFullNames == MessageTypes \cup DOMAIN _MESSAGETYPE_TO_SPARK_TYPE_MAP

\* C1: for every full name N, a registered serializer's declared result type
\* is the schema map's entry for N; without a serializer the entry is the
\* built-in well-known type of N when there is one, and absent otherwise.
C1_SchemaMapInLockstep ==
    \A n \in AllFullNames :
        IF n \in DOMAIN _custom_serializers
        THEN /\ n \in DOMAIN declared
             /\ n \in DOMAIN _message_type_to_spark_type_map
             /\ _message_type_to_spark_type_map[n] = declared[n]
        ELSE IF n \in DOMAIN _MESSAGETYPE_TO_SPARK_TYPE_MAP
             THEN /\ n \in DOMAIN _message_type_to_spark_type_map
                  /\ _message_type_to_spark_type_map[n] = _MESSAGETYPE_TO_SPARK_TYPE_MAP[n]
             ELSE n \notin DOMAIN _message_type_to_spark_type_map

\* The timestamp serializer has been unregistered (built-in entry restored),
\* Shared has been registered and unregistered, and DecimalMessage carries a
\* registration.
C1_Witness ==
    /\ TimestampName \notin DOMAIN _custom_serializers
    /\ _message_type_to_spark_type_map[TimestampName] = StringType
    /\ "example.Shared" \in DOMAIN declared
    /\ declared["example.Shared"] = Unregistered
    /\ "example.Shared" \notin DOMAIN _message_type_to_spark_type_map
    /\ "example.DecimalMessage" \in DOMAIN _custom_serializers
    /\ _message_type_to_spark_type_map["example.DecimalMessage"] = StringType

-----------------------------------------------------------------------------
(* The schema derivation as the specification describes it (section 4.4),  *)
(* against which get_spark_schema's results are compared.                  *)

FieldMessageTypes(d) ==
    {DescriptorFields[d][i].message_type : i \in DOMAIN DescriptorFields[d]} \ {None}

RECURSIVE Closure(_)
Closure(S) ==
    LET T == S \cup UNION {FieldMessageTypes(t) : t \in S}
    IN IF T = S THEN S ELSE Closure(T)

\* Message types reachable from d through one or more message-typed fields.
Reachable(d) == Closure(FieldMessageTypes(d))
Acyclic(d) == \A t \in {d} \cup Reachable(d) : t \notin Reachable(t)

\* Message-typed fields (owner, index) in the graph under d.
MessageEdges(d) ==
    {e \in ({d} \cup Reachable(d)) \X (1..9) :
        /\ e[2] \in DOMAIN DescriptorFields[e[1]]
        /\ DescriptorFields[e[1]][e[2]].message_type # None}
EdgeTarget(e) == DescriptorFields[e[1]][e[2]].message_type
\* Some message type is the type of two different fields under d.
SharedOnBranches(d) ==
    \E e1, e2 \in MessageEdges(d) : e1 # e2 /\ EdgeTarget(e1) = EdgeTarget(e2)

KindTable(cpp_type) ==
    CASE cpp_type = "CPPTYPE_INT32" -> IntegerType
      [] cpp_type \in {"CPPTYPE_INT64", "CPPTYPE_UINT32", "CPPTYPE_UINT64"} -> LongType
      [] cpp_type = "CPPTYPE_DOUBLE" -> DoubleType
      [] cpp_type = "CPPTYPE_FLOAT" -> FloatType
      [] cpp_type = "CPPTYPE_BOOL" -> BooleanType
      [] cpp_type \in {"CPPTYPE_ENUM", "CPPTYPE_STRING"} -> StringType

RECURSIVE DerivedSchema(_, _, _, _)
RECURSIVE DerivedFields(_, _, _, _, _, _)

DerivedFields(map, fields, i, acc, options, seen) ==
    IF i > Len(fields) THEN StructType(acc)
    ELSE
        LET f == fields[i]
            nm == IF DictGet(options, "preserving_proto_field_name", FALSE)
                  THEN f.name ELSE f.camelcase_name
            wrap(t) == IF f.label = "LABEL_REPEATED" THEN ArrayType(t, TRUE) ELSE t
            keep(t) == DerivedFields(map, fields, i + 1,
                                     Append(acc, StructField(nm, wrap(t), TRUE)),
                                     options, seen)
            drop == DerivedFields(map, fields, i + 1, acc, options, seen)
        IN IF f.deprecated /\ DictGet(options, "ignore_deprecated", FALSE) THEN drop
           ELSE IF f.message_type # None /\ f.message_type \in seen
                THEN IF DictGet(options, "ignore_circular_definitions", FALSE)
                     THEN drop ELSE Raise("ValueError")
           ELSE IF f.message_type # None
                THEN LET sub == DerivedSchema(map, f.message_type, options, seen)
                     IN IF IsRaise(sub) THEN sub ELSE keep(sub)
           ELSE IF f.type = "TYPE_BYTES" THEN keep(BinaryType)
           ELSE keep(KindTable(f.cpp_type))

DerivedSchema(map, d, options, seen) ==
    IF d \in DOMAIN map THEN map[d]
    ELSE DerivedFields(map, DescriptorFields[d], 1, <<>>, options, seen \cup {d})

IsSchemaCall == last.op = "get_spark_schema"
OptionSet(o, k) == DictGet(o, k, FALSE)

\* The schema field a descriptor field is rendered as, if any.
SchemaFieldsOf(schema, f, o) ==
    LET nm == IF OptionSet(o, "preserving_proto_field_name") THEN f.name
              ELSE f.camelcase_name
    IN {j \in DOMAIN schema.fields : schema.fields[j].name = nm}
Wrapped(f, t) == IF f.label = "LABEL_REPEATED" THEN ArrayType(t, TRUE) ELSE t
ElementType(f, t) == IF f.label = "LABEL_REPEATED" THEN t.elementType ELSE t

\* In a derived record for d, every field whose message type has a
\* serializer carries the declared type, at every depth.
RECURSIVE OverridesUsed(_, _, _)
OverridesUsed(schema, d, o) ==
    \A i \in DOMAIN DescriptorFields[d] :
        LET f == DescriptorFields[d][i]
        IN f.message_type # None =>
            IF f.message_type \in DOMAIN _custom_serializers
            THEN \/ f.deprecated /\ OptionSet(o, "ignore_deprecated")
                 \/ \E j \in SchemaFieldsOf(schema, f, o) :
                        schema.fields[j].dataType = Wrapped(f, declared[f.message_type])
            ELSE \A j \in SchemaFieldsOf(schema, f, o) :
                    LET t == ElementType(f, schema.fields[j].dataType)
                    IN t.kind = "StructType" => OverridesUsed(t, f.message_type, o)

\* C2: a registered serializer's declared type is what get_spark_schema
\* gives the type, top-level and nested; after unregister_serializer the
\* type gets its built-in entry or else its structurally derived record.
C2_OverrideThenRestore ==
    IsSchemaCall =>
        LET d == last.descriptor
            o == last.options
            r == last.result.ret
        IN /\ d \in DOMAIN _custom_serializers => r = declared[d]
           /\ r.kind = "StructType" => OverridesUsed(r, d, o)
           /\ (d \in DOMAIN declared /\ declared[d] = Unregistered) =>
                 r = IF d \in DOMAIN _MESSAGETYPE_TO_SPARK_TYPE_MAP
                     THEN _MESSAGETYPE_TO_SPARK_TYPE_MAP[d]
                     ELSE DerivedSchema(_message_type_to_spark_type_map, d, o, {})

\* C3: a call that reaches a field whose message type is on the expansion
\* path raises the circular-definition error when ignore_circular_definitions
\* is unset, and when it is set succeeds with a schema that drops exactly the
\* circular fields.
C3_CircularField ==
    (/\ IsSchemaCall
     /\ OptionSet(last.options, "ignore_circular_definitions")
     /\ last.result.log # <<>>) =>
        /\ get_spark_schema(_message_type_to_spark_type_map, last.descriptor,
                            DictPop(last.options, "ignore_circular_definitions"),
                            {}).ret = Raise("ValueError")
        /\ last.result.ret.kind = "StructType"
        /\ last.result.ret = DerivedSchema(_message_type_to_spark_type_map,
                                           last.descriptor, last.options, {})

\* In a derived record for d, every message-typed field is present (but for
\* deprecated fields dropped on request), at every depth.
RECURSIVE MessageFieldsPresent(_, _, _)
MessageFieldsPresent(schema, d, o) ==
    \A i \in DOMAIN DescriptorFields[d] :
        LET f == DescriptorFields[d][i]
        IN (f.message_type # None /\ ~(f.deprecated /\ OptionSet(o, "ignore_deprecated"))) =>
            /\ SchemaFieldsOf(schema, f, o) # {}
            /\ \A j \in SchemaFieldsOf(schema, f, o) :
                    LET t == ElementType(f, schema.fields[j].dataType)
                    IN t.kind = "StructType" => MessageFieldsPresent(t, f.message_type, o)

\* C4: in an acyclic descriptor graph in which one message type is the type
\* of several fields, derivation succeeds whatever ignore_circular_definitions
\* is, and all those fields are in the schema.
C4_NoFalseCycle ==
    (/\ IsSchemaCall
     /\ Acyclic(last.descriptor)
     /\ SharedOnBranches(last.descriptor)
     /\ last.descriptor \notin DOMAIN _message_type_to_spark_type_map) =>
        /\ last.result.ret.kind = "StructType"
        /\ last.result.log = <<>>
        /\ MessageFieldsPresent(last.result.ret, last.descriptor, last.options)

\* C5: for an acyclic message type and no skip option, get_spark_schema
\* returns the record with one nullable field per descriptor field, in
\* order, typed by the kind table, the binary type, arrays for repeated
\* fields and the override or derived record for message fields.
C5_RecordPerField ==
    (/\ IsSchemaCall
     /\ Acyclic(last.descriptor)
     /\ last.descriptor \notin DOMAIN _message_type_to_spark_type_map
     /\ ~OptionSet(last.options, "ignore_deprecated")
     /\ ~OptionSet(last.options, "ignore_circular_definitions")) =>
        last.result.ret = DerivedSchema(_message_type_to_spark_type_map,
                                        last.descriptor, last.options, {})

-----------------------------------------------------------------------------
(* Properties of the conversions                                           *)

IsStruct(t) == t.kind = "StructType"
IsArray(t) == t.kind = "ArrayType"

\* A mapping has the shape of a record type: its keys are fields of the
\* record, array-typed fields hold lists and record-typed fields hold
\* mappings of that record's shape.
RECURSIVE Conforms(_, _)
Conforms(value, type) ==
    CASE IsStruct(type) ->
            /\ value.py = "dict"
            /\ \A k \in DOMAIN value.items :
                \E j \in DOMAIN type.fields :
                    /\ type.fields[j].name = k
                    /\ Conforms(value.items[k], type.fields[j].dataType)
      [] IsArray(type) ->
            /\ value.py = "list"
            /\ \A k \in DOMAIN value.elems : Conforms(value.elems[k], type.elementType)
      [] OTHER -> value.py \notin {"dict", "list", "raise"}

\* C6: under every options dict, what the decoder returns for a message has
\* the field names and nesting of the schema get_spark_schema derives for
\* the message type under the same options.
C6_MappingConformsToSchema ==
    (last.op = "decoder_udf" /\ IsStruct(last.schema.ret)) =>
        Conforms(last.result, last.schema.ret)

\* Every type with a serializer has the deserializer that inverts it, and
\* no type has a deserializer only.
SerializersPaired ==
    /\ DOMAIN _custom_serializers = DOMAIN _custom_deserializers
    /\ \A n \in DOMAIN _custom_serializers :
        \/ _custom_serializers[n] = "_to_datetime"
           /\ _custom_deserializers[n] = "_from_datetime"
        \/ _custom_serializers[n] = "decimal_serializer"
           /\ _custom_deserializers[n] = "decimal_deserializer"
\* No registered serializer drops part of its message.
NoLossySerializer ==
    \A n \in DOMAIN _custom_serializers : _custom_serializers[n] # "at_seconds_serializer"
IsRoundTrip == last.op = "parse_dict" /\ last.source # NoSource
\* The timestamp serializer and deserializer of a new converter are in place.
TimestampPairActive ==
    /\ TimestampName \in DOMAIN _custom_serializers
    /\ TimestampName \in DOMAIN _custom_deserializers
DefaultDepth == "max_recursion_depth" \notin DOMAIN last.kwargs

RECURSIVE BytesCarried(_, _, _)
BytesCarried(message, value, preserving) ==
    \/ message.type \in DOMAIN _custom_serializers
    \/ message.type \in _WKTJSONMETHODS
    \/ /\ value.py = "dict"
       /\ \A i \in DOMAIN DescriptorFields[message.type] :
            LET f == DescriptorFields[message.type][i]
                k == IF preserving THEN f.name ELSE f.camelcase_name
            IN f.name \in DOMAIN message.set =>
                /\ k \in DOMAIN value.items
                /\ IsBytesField(f) => value.items[k] = message.set[f.name]
                /\ (f.cpp_type = "CPPTYPE_MESSAGE" /\ f.label # "LABEL_REPEATED") =>
                        BytesCarried(message.set[f.name], value.items[k], preserving)
                /\ (f.cpp_type = "CPPTYPE_MESSAGE" /\ f.label = "LABEL_REPEATED") =>
                        /\ value.items[k].py = "list"
                        /\ \A e \in DOMAIN message.set[f.name].elems :
                            BytesCarried(message.set[f.name].elems[e],
                                         value.items[k].elems[e], preserving)

\* Every bytes or bytearray value a mapping gives for a bytes field is the
\* bytes value of that field in the parsed message, at every depth reached
\* by the default conversion.
RECURSIVE BytesStored(_, _)
BytesStored(value, message) ==
    \/ message.type \in DOMAIN _custom_deserializers
    \/ message.type \in _WKTJSONMETHODS
    \/ value.py # "dict"
    \/ \A k \in DOMAIN value.items : \A i \in FieldIndex(message.type, k) :
            LET f == DescriptorFields[message.type][i]
                v == value.items[k]
            IN /\ (IsBytesField(f) /\ v.py \in {"bytes", "bytearray"}) =>
                    GetField(message, f.name, DefaultValue(f)) = PyBytes(v.bytes)
               /\ (f.cpp_type = "CPPTYPE_MESSAGE" /\ f.label # "LABEL_REPEATED") =>
                    /\ f.name \in DOMAIN message.set
                    /\ BytesStored(v, message.set[f.name])

\* C8: message_to_dict gives a bytes field's exact byte string, and
\* parse_dict stores a bytes or bytearray value unchanged as bytes,
\* wherever the default conversion reaches.
C8_BytesCarriedUnchanged ==
    /\ (last.op = "message_to_dict" /\ ~IsPyRaise(last.result)) =>
            BytesCarried(last.message, last.result,
                         DictGet(last.kwargs, "preserving_proto_field_name", FALSE))
    /\ (last.op = "parse_dict" /\ ~Failed(last.result)) =>
            BytesStored(last.value, last.result.msg)

\* A mapping with a bytes value at the top and a bytearray value in a nested
\* message has been parsed into a message holding both as bytes.
C8_Witness ==
    /\ last.op = "parse_dict" /\ ~Failed(last.result)
    /\ last.source = NoSource
    /\ last.result.msg.type = "example.ExampleMessage"
    /\ last.value.items["nested"].items["raw_value"] = PyByteArray(<<1, 2>>)
    /\ last.result.msg.set["nested"].set["raw_value"] = PyBytes(<<1, 2>>)
    /\ last.result.msg.set["bytes"] = PyBytes(<<1, 2>>)

\* The mapping value of a message is its serializer's return value when one
\* is registered, else the well-known rendering, else a dict whose message
\* fields are again such values.
RECURSIVE SerializedVerbatim(_, _, _)
SerializedVerbatim(message, value, preserving) ==
    IF message.type \in DOMAIN _custom_serializers
    THEN value = SerializerReturn(_custom_serializers[message.type], message)
    ELSE IF message.type \in _WKTJSONMETHODS
    THEN value.py = "timetext"
    ELSE /\ value.py = "dict"
         /\ \A i \in DOMAIN DescriptorFields[message.type] :
              LET f == DescriptorFields[message.type][i]
                  k == IF preserving THEN f.name ELSE f.camelcase_name
              IN (f.name \in DOMAIN message.set /\ f.cpp_type = "CPPTYPE_MESSAGE") =>
                    /\ k \in DOMAIN value.items
                    /\ IF f.label = "LABEL_REPEATED"
                       THEN /\ value.items[k].py = "list"
                            /\ Len(value.items[k].elems) = Len(message.set[f.name].elems)
                            /\ \A e \in DOMAIN message.set[f.name].elems :
                                 SerializedVerbatim(message.set[f.name].elems[e],
                                                    value.items[k].elems[e], preserving)
                       ELSE SerializedVerbatim(message.set[f.name], value.items[k],
                                               preserving)

\* C9: in message_to_dict the value of a message whose type has a
\* registered serializer is that serializer's return value, top-level or
\* nested, singular or repeated, ahead of the well-known rendering; other
\* messages get the default rendering.
C9_SerializerVerbatim ==
    (last.op = "message_to_dict" /\ ~IsPyRaise(last.result)) =>
        SerializedVerbatim(last.message, last.result,
                           DictGet(last.kwargs, "preserving_proto_field_name", FALSE))

\* A message whose repeated and singular fields hold messages of a type
\* with a registered serializer, itself holding timestamps, was converted.
C9_Witness ==
    /\ last.op = "message_to_dict" /\ ~IsPyRaise(last.result)
    /\ last.message = Right1
    /\ "example.Shared" \in DOMAIN _custom_serializers
    /\ last.result.items["moreShared"].elems[1] = PyInt(2)
    /\ last.result.items["shared"] = PyInt(1)

\* The timestamp of a top-level message was given as the registered
\* serializer's date-time value rather than as the well-known text.
C9_WitnessTimestamp ==
    /\ last.op = "message_to_dict" /\ ~IsPyRaise(last.result)
    /\ last.message = Shared1
    /\ "example.Shared" \notin DOMAIN _custom_serializers
    /\ last.result.items["at"].py = "datetime"
    /\ last.result.items["took"].py = "timetext"

-----------------------------------------------------------------------------
(* Properties of concurrent parse_dict calls                               *)

AllReturned == threads # NoThreads /\ \A t \in DOMAIN threads : ~Running(t)
\* What the call of thread t gives when nothing else runs.
ResultAlone(t) ==
    parse_dict(_custom_deserializers, threads[t].input.value,
               FreshMessage(threads[t].input.type), EmptyDict)

\* C10: when all concurrent parse_dict calls have returned, each has the
\* result it has when run alone and the process-wide scalar routine is the
\* original one.
C10_ThreadsIndependent ==
    AllReturned =>
        /\ routine = 0
        /\ \A t \in DOMAIN threads : threads[t].result = ResultAlone(t)

-----------------------------------------------------------------------------
(* Properties of several converter instances                               *)

\* The three maps of converter c, by content.
RegistryOf(c) ==
    [_custom_serializers |-> heap[converters[c]._custom_serializers],
     _custom_deserializers |-> heap[converters[c]._custom_deserializers],
     _message_type_to_spark_type_map |->
         heap[converters[c]._message_type_to_spark_type_map]]
\* The state the constructor is to leave a converter in.
FreshRegistry ==
    [_custom_serializers |-> [n \in {TimestampName} |-> "_to_datetime"],
     _custom_deserializers |-> [n \in {TimestampName} |-> "_from_datetime"],
     _message_type_to_spark_type_map |->
         DictSet(_MESSAGETYPE_TO_SPARK_TYPE_MAP, TimestampName, TimestampType)]

\* The converter the last call constructed, if it was a constructor call, has
\* the fresh registry.
ConstructedFresh ==
    last.op = "__init__" => RegistryOf(last.self) = FreshRegistry

\* C11: a constructor or register / unregister call on one converter leaves
\* the three maps of every other converter and the module-level built-in
\* table as they were, and a converter just constructed has the built-in
\* table with the timestamp serializer and deserializer active.
C11_OwnRegistry ==
    [][/\ heap'[ModuleTable] = heap[ModuleTable]
       /\ \A c \in DOMAIN converters :
              last'.self # c => RegistryOf(c)' = RegistryOf(c)
       /\ ConstructedFresh']_vars

\* A second converter has just been constructed after the first one's
\* registry was changed.
C11_Witness ==
    /\ Len(converters) = 2
    /\ last.op = "__init__"
    /\ last.self = 2
    /\ "example.DecimalMessage" \in DOMAIN RegistryOf(1)._custom_serializers
    /\ TimestampName \notin DOMAIN RegistryOf(1)._custom_deserializers
    /\ RegistryOf(1)._message_type_to_spark_type_map[TimestampName] = StringType

-----------------------------------------------------------------------------
(* Properties of failing decode calls                                      *)

IsDecodeCall == last.op \in {"parse_dict", "encoder"}
DecodedType == last.result.msg.type
\* The fields of the decoded type that key k of the mapping names.
KeyFields(k) ==
    {DescriptorFields[DecodedType][i] : i \in FieldIndex(DecodedType, k)}
StructurallyDecoded ==
    /\ DOMAIN last.kwargs \subseteq ParserKeywords
    /\ DecodedType \notin DOMAIN _custom_deserializers
    /\ last.value.py = "dict"
\* A key of the mapping names no field and ignore_unknown_fields is unset.
UnknownKey ==
    /\ StructurallyDecoded
    /\ ~DictGet(last.kwargs, "ignore_unknown_fields", FALSE)
    /\ \E k \in DOMAIN last.value.items : KeyFields(k) = {}
\* A nested message conversion is deeper than max_recursion_depth allows.
TooDeep ==
    /\ StructurallyDecoded
    /\ DictGet(last.kwargs, "max_recursion_depth", DefaultMaxRecursionDepth) = 1
    /\ \E k \in DOMAIN last.value.items : \E f \in KeyFields(k) :
           /\ f.cpp_type = "CPPTYPE_MESSAGE"
           /\ f.message_type \notin DOMAIN _custom_deserializers
           /\ f.label = "LABEL_REPEATED" => last.value.items[k] # PyList(<<>>)
\* A scalar value of the mapping cannot be coerced to its field's type.
Uncoercible ==
    /\ StructurallyDecoded
    /\ \E k \in DOMAIN last.value.items : \E f \in KeyFields(k) :
           /\ f.cpp_type # "CPPTYPE_MESSAGE"
           /\ f.label # "LABEL_REPEATED"
           /\ IsPyRaise(_handle_bytes(last.value.items[k], f))

\* C12: a decode call (parse_dict, the encoder function) on a mapping with
\* an unknown key while ignore_unknown_fields is unset, with nesting deeper
\* than max_recursion_depth, or with a value that cannot be coerced fails,
\* and a failed call hands its caller the error: no value, and from the
\* encoder no serialized bytes of the message populated so far.
C12_FailureAborts ==
    IsDecodeCall =>
        /\ UnknownKey \/ TooDeep \/ Uncoercible => Failed(last.result)
        /\ Failed(last.result) => last.returned = PyRaise(last.result.exc)

\* The encoder failed on a nested message that is too deep after it had
\* populated fields of the message.
C12_Witness ==
    /\ last.op = "encoder"
    /\ TooDeep
    /\ last.result.msg.set # EmptyDict
    /\ IsPyRaise(last.returned)
C12_WitnessUnknownKey == IsDecodeCall /\ UnknownKey /\ IsPyRaise(last.returned)
C12_WitnessUncoercible ==
    /\ last.op = "encoder"
    /\ Uncoercible
    /\ ~UnknownKey
    /\ ~TooDeep
    /\ IsPyRaise(last.returned)

-----------------------------------------------------------------------------
(* Properties of the patched routine in a single thread                    *)

\* The frames among the first n of the call's stack whose wrapper is
\* installed: they are inside the with block.
Installed(n) ==
    {i \in 1..n : threads[1].stack[i].pc \in {"body", "restore"}}

\* C13: in a single thread every ConvertMessage on the default path has its
\* wrapper around the routine that was current at its entry, which it holds
\* to put back, so the process-wide routine is the one before the call plus
\* one wrapper per open with block, and once the call has returned or raised
\* it is the routine before the call.
C13_StackDiscipline ==
    /\ routine = args.before + Cardinality(Installed(Len(threads[1].stack)))
    /\ \A i \in Installed(Len(threads[1].stack)) :
           threads[1].stack[i].saved = args.before + Cardinality(Installed(i - 1))
    /\ ~Running(1) => routine = args.before

\* A call that started under an already wrapped routine has raised from
\* inside a nested message.
C13_Witness ==
    /\ ~Running(1)
    /\ args.before = 1
    /\ Failed(threads[1].result)
    /\ "nested" \in DOMAIN threads[1].result.msg.set
    /\ routine = 1
\* Three ConvertMessage calls are open, each with its wrapper installed.
C13_WitnessDeep == Cardinality(Installed(Len(threads[1].stack))) = 3

-----------------------------------------------------------------------------
(* Properties of the recursion of get_spark_schema                         *)

\* The descriptors of the open calls, outermost first.
SchemaPath == [i \in DOMAIN derivation.stack |-> derivation.stack[i].descriptor]
\* Every open call is for a type none of the calls below it is for, and has
\* seen exactly the types of the calls below it and, once entered, its own.
PathGrowsByOne ==
    \A i \in DOMAIN derivation.stack :
        /\ \A j \in 1..(i - 1) : SchemaPath[j] # SchemaPath[i]
        /\ derivation.stack[i].seen =
               {SchemaPath[j] : j \in 1..(i - 1)}
                   \cup (IF derivation.stack[i].i = 0 THEN {} ELSE {SchemaPath[i]})
SchemaEnded == ~SchemaRunning

\* C14: every recursive call of get_spark_schema is for a message type not
\* on the current path, the path growing by one distinct type name per
\* level, and the call ends by returning a schema or by raising the
\* circular-definition error.
C14_EndsWithSchemaOrCircularError ==
    /\ PathGrowsByOne
    /\ SchemaEnded =>
           \/ ~IsRaise(derivation.result.ret)
           \/ derivation.result.ret = Raise("ValueError")

\* The recursion itself: the path never repeats a type, so it is never
\* longer than the number of message types, and every call comes to an end.
C14_PathBounded ==
    PathGrowsByOne /\ Len(derivation.stack) <= Cardinality(MessageTypes)
C14_Terminates == <>SchemaEnded

====
